---- MODULE Spec2Model ----
(***************************************************************************)
(* Footprint projection and accumulation of cesium-entity-cast.           *)
(*                                                                         *)
(* One "scan session" is one call of createIntersectionPolygon: either    *)
(* the multi-cone one of src/lib/cesium/utils.js or the single-cone one   *)
(* of src/utils/cast.js.  A step of the model is one evaluation ("tick")  *)
(* of the Highlight entity's hierarchy callback of one cone, or one       *)
(* evaluation of the FootprintTotal entity's hierarchy callback.  A       *)
(* second specification has a cone of createCone (cesiumDraw.js) as the   *)
(* cone of a session of utils.js, with its properties assigned between    *)
(* the ticks.  A third one has the clock of the scenes, which gives the   *)
(* simulation time of every evaluation, and a fourth one the two entities *)
(* of a cone of createCone in the viewer.                                 *)
(*                                                                         *)
(* Geometry is one-dimensional: a surface point is its longitude, a whole *)
(* number of metres along a line through the centre of the ground circle; *)
(* a cone is as many metres from the surface as its position says.  A     *)
(* polygon is a sorted sequence of disjoint intervals of longitude.  What *)
(* Cesium and turf compute (the pose of the entities, the ray/ellipsoid   *)
(* intersections, the failures of polygon, union and simplify) is an      *)
(* input of the tick, drawn from small sets.                              *)
(***************************************************************************)
EXTENDS Integers, Sequences, FiniteSets, TLC

VARIABLES
  impl,                 \* which createIntersectionPolygon made the session
  scanPositions,        \* options.scanPositions: the trajectory
  accumulatedGeoJSON,   \* the accumulated footprint, Null until seeded
  lastFootprintPos,     \* per cone: the Last-Recorded-Centroid, Null at first
  footprintEntityPool,  \* utils.js: the FootprintPart entities
  displayed,            \* cast.js: what FootprintTotal returned since the
                        \* last tick of the Highlight callback, else Null
  cone,                 \* createCone: the properties of the tip entity
  coneRead,             \* history: the latest orientation.getValue(time)
                        \* since a property of the cone was assigned
  clock,                \* viewer.clock
  timeline,             \* history: per cone, the times of its evaluations
  ticks,                \* number of evaluations so far
  appended,             \* history: the initial trajectory and every push
  seen3,                \* history: a footprint of >= 3 points was evaluated
  prev,                 \* history: per cone, its latest evaluation
  ev                    \* history: the latest evaluation

vars == <<impl, scanPositions, accumulatedGeoJSON, lastFootprintPos,
          footprintEntityPool, displayed, cone, coneRead, clock, timeline,
          ticks, appended, seen3, prev, ev>>

----------------------------------------------------------------------------
(* Bounds of the model *)

MaxTicks == 2
NumCones == 2
StopTime == 2
MaxTime == 4

(* Constants of the program *)

NumSamples == 72
MaxTrajectory == 200
MinDisplacement == 100
groundCircleRadius == 10000
showFootprint == TRUE

Cones == 1..NumCones

(* null / undefined, and a present value *)
Null == <<>>
Some(v) == <<v>>
Val(o) == o[1]

Abs(x) == IF x < 0 THEN -x ELSE x
SetMin(S) == CHOOSE x \in S : \A y \in S : x <= y
SetMax(S) == -SetMin({-z : z \in S})

----------------------------------------------------------------------------
(* The pose sources and the ray caster *)

\* groundEntity.position.getValue(time): the centre of the ground circle,
\* undefined, where it is at first, or where it is once it has moved
GroundLon == 0
GroundMovedLon == 20000
GroundPosValues == {Null, Some(GroundLon), Some(GroundMovedLon)}

\* coneEntity.position.getValue(time): undefined, or a position, given by
\* its distance in metres from the surface it looks at
ConePosValues == {Null} \cup {Some(h) : h \in {4000, 24000, 1000000}}

\* coneEntity.cylinder.length.getValue(time): undefined (also: no cylinder)
\* or a length in metres
CylinderLengthValues == {Null, Some(2000)}

\* let coneLength = 20000, replaced by the length of the cylinder if any
DefaultConeLength == 20000
ConeLength(cylinderLength) ==
  IF cylinderLength # Null THEN Val(cylinderLength) ELSE DefaultConeLength

\* coneEntity.vertexPosition: the apex as the entity stores it; no cone made
\* by createCone or createTargetingCone has one
VertexPositionValues == {Null}

\* conePos - normalize(groundPos - conePos) * coneLength / 2: the position
\* taken for the centre of the cone, moved half a length away from the ground
ApexFromCenter(conePos, coneLength) == conePos + coneLength \div 2

\* utils.js: the stored vertex position if there is one, else from the centre
ApexUtils(conePos, vertexPosition, coneLength) ==
  IF vertexPosition # Null THEN Val(vertexPosition)
  ELSE ApexFromCenter(conePos, coneLength)

\* cast.js: always from the centre
ApexCast(conePos, coneLength) == ApexFromCenter(conePos, coneLength)

\* Every apex these positions, lengths and vertex positions give
ApexValues ==
  {ApexUtils(Val(p), v, ConeLength(l)) :
     p \in ConePosValues \ {Null}, v \in VertexPositionValues,
     l \in CylinderLengthValues}

\* coneEntity.orientation.getValue(time): undefined, or a quaternion, given
\* by where the axis it makes meets the surface (Null: the axis points away)
AimValues ==
  {Null} \cup {Some(x) : x \in {GroundLon, groundCircleRadius + 330}}
OrientationValues == {Null} \cup {Some(a) : a \in AimValues}

\* Where an axis can meet the surface: where an orientation aims, or at
\* the centre of the ground circle
AxisValues == AimValues \cup (GroundPosValues \ {Null})

\* The axis: from the orientation when it resolves, else towards groundPos.
Axis(orientation, groundPos) ==
  IF orientation # Null THEN Val(orientation) ELSE groundPos

\* The axis of cast.js: always towards groundPos.
AxisToGround(groundPos) == groundPos

\* Offset of sample i of the ring around the axis, in metres per kilometre
\* between the apex and the surface: all 72 are distinct.
RingOffset(i) == IF i < 36 THEN 10 * (36 - 2 * i) ELSE 10 * (2 * i - 107)

\* The intersection as it would be if a ray that points away from the
\* ellipsoid still gave one, behind the apex
RayEllipsoidBehind(apexPos, axis, i) ==
  Some((IF axis = Null THEN GroundLon ELSE Val(axis))
       + (apexPos * RingOffset(i)) \div 1000)

\* Cesium.IntersectionTests.rayEllipsoid + Ray.getPoint for sample i
RayEllipsoid(apexPos, axis, i) ==
  IF axis = Null THEN Null
  ELSE Some(Val(axis) + (apexPos * RingOffset(i)) \div 1000)

Distance(a, b) == Abs(a - b)

\* The clip test as it would be without the comparison with the radius
AcceptedAnywhere(point, groundPos) == TRUE

\* The clip test of one intersection
Accepted(point, groundPos) == Distance(point, groundPos) <= groundCircleRadius

\* The loop as it would be with unshift(point) for push(point)
RECURSIVE CastRaysUnshift(_, _, _, _)
CastRaysUnshift(apexPos, axis, groundPos, i) ==
  IF i >= NumSamples THEN <<>>
  ELSE LET intersection == RayEllipsoid(apexPos, axis, i)
       IN  CastRaysUnshift(apexPos, axis, groundPos, i + 1)
           \o (IF intersection # Null /\ Accepted(Val(intersection), groundPos)
               THEN <<[sample |-> i, lon |-> Val(intersection)]>>
               ELSE <<>>)

\* The loop over the 72 samples: intersectionPoints.push(point)
RECURSIVE CastRays(_, _, _, _)
CastRays(apexPos, axis, groundPos, i) ==
  IF i >= NumSamples THEN <<>>
  ELSE LET intersection == RayEllipsoid(apexPos, axis, i)
       IN  (IF intersection # Null /\ Accepted(Val(intersection), groundPos)
            THEN <<[sample |-> i, lon |-> Val(intersection)]>>
            ELSE <<>>)
           \o CastRays(apexPos, axis, groundPos, i + 1)

RECURSIVE SumLon(_, _)
SumLon(points, k) ==
  IF k = 0 THEN 0 ELSE points[k].lon + SumLon(points, k - 1)

\* center: the mean longitude, in whole metres
Centroid(points) == SumLon(points, Len(points)) \div Len(points)

\* What the callback computes from a pose, for every apex, axis and ground
\* position: intersectionPoints and, when there are any, center
Footprints ==
  {LET points == CastRays(apex, axis, ground, 0)
   IN  [cast |-> TRUE, apexPos |-> apex, axis |-> axis, groundPos |-> ground,
        points |-> points,
        center |-> IF Len(points) > 0 THEN Some(Centroid(points)) ELSE Null] :
     apex \in ApexValues, axis \in AxisValues,
     ground \in {Val(g) : g \in GroundPosValues \ {Null}}}

Footprint(apexPos, axis, groundPos) ==
  CHOOSE f \in Footprints :
    f.apexPos = apexPos /\ f.axis = axis /\ f.groundPos = groundPos

\* The evaluation that returns at once: no rays, no points, no center
NoFootprint ==
  [cast |-> FALSE, apexPos |-> 0, axis |-> Null, groundPos |-> 0,
   points |-> <<>>, center |-> Null]

----------------------------------------------------------------------------
(* turf: a geometry is its parts, each an interval <<west, east>> of      *)
(* longitudes, in ascending order and apart from one another             *)

Coordinates(points) == [k \in 1..Len(points) |-> points[k].lon]

Min2(a, b) == IF a <= b THEN a ELSE b
Max2(a, b) == IF a >= b THEN a ELSE b

\* turf.polygon throws on a ring of fewer than 4 positions
PolygonThrows(ring, fault) == Len(ring) < 4 \/ fault = "polygon"

\* turf.polygon([ring]): the one part that the ring outlines
TurfPolygon(ring) ==
  LET lons == {ring[k] : k \in 1..Len(ring)}
  IN  [parts |-> <<<<SetMin(lons), SetMax(lons)>>>>, simplified |-> FALSE]

\* A part joined to ascending parts: what it touches merges with it
RECURSIVE UnionPart(_, _)
UnionPart(parts, p) ==
  IF parts = <<>> THEN <<p>>
  ELSE LET h == Head(parts)
       IN  IF p[2] < h[1] THEN <<p>> \o parts
           ELSE IF h[2] < p[1] THEN <<h>> \o UnionPart(Tail(parts), p)
           ELSE UnionPart(Tail(parts), <<Min2(h[1], p[1]), Max2(h[2], p[2])>>)

RECURSIVE UnionParts(_, _)
UnionParts(parts, more) ==
  IF more = <<>> THEN parts
  ELSE UnionParts(UnionPart(parts, Head(more)), Tail(more))

\* The union as it would be if the polygons were only collected into one
\* MultiPolygon, as turf.combine does
TurfUnionCombine(a, b) ==
  [parts |-> a.parts \o b.parts, simplified |-> FALSE]

\* turf.union(turf.featureCollection([a, b]))
TurfUnion(a, b) ==
  [parts |-> UnionParts(a.parts, b.parts), simplified |-> FALSE]

\* turf.simplify drops positions of a ring that lie within the tolerance of
\* the line between their neighbours; it keeps every part and the outermost
\* positions of its ring, which are all that a part has here
TurfSimplify(g) == [g EXCEPT !.simplified = TRUE]

\* geometry.type
GeometryType(g) == IF Len(g.parts) = 1 THEN "Polygon" ELSE "MultiPolygon"

\* The polygons of a geometry: of a Polygon the one, of a MultiPolygon all
Polygons(g) == g.parts

\* coords[0] of a part: its exterior ring, closed
ExteriorRing(part) == <<part[1], part[2], part[2], part[1], part[1]>>

\* turf.area(turf.polygon(polyCoords)): of an interval, its length
PartArea(part) == part[2] - part[1]

----------------------------------------------------------------------------
(* The accumulator *)

\* !conePos || !groundPos
MissingPose(conePos, groundPos) == conePos = Null \/ groundPos = Null

\* The gate as it would be with >= 100 for > 100
GateAtLeast(last, center) ==
  last = Null \/ Distance(center, Val(last)) >= MinDisplacement

\* !lastFootprintPos || distance(center, lastFootprintPos) > 100
Gate(last, center) ==
  last = Null \/ Distance(center, Val(last)) > MinDisplacement

\* lastFootprintPos = center as it would be if it were left out
RecordLastNever(last, c, center) == last

\* lastFootprintPos = center as it would be with one variable for all cones
RecordLastShared(last, c, center) == [k \in DOMAIN last |-> center]

\* lastFootprintPos = center, in the closure of cone c
RecordLast(last, c, center) == [last EXCEPT ![c] = center]

\* The limit as it would be without the shift
LimitTrajectoryNever(s) == s

\* The limit as it would be with pop() for shift()
LimitTrajectoryDropNewest(s) ==
  IF Len(s) > MaxTrajectory THEN SubSeq(s, 1, Len(s) - 1) ELSE s

\* if (scanPositions.length > 200) scanPositions.shift()
LimitTrajectory(s) == IF Len(s) > MaxTrajectory THEN Tail(s) ELSE s

\* scanPositions.push(center), then the limit
PushScanPosition(s, center) == LimitTrajectory(Append(s, center))

\* What turf can do in one tick: nothing wrong, polygon throws, union
\* throws, union returns null (simplify of null then throws), simplify
\* throws.
Faults == {"none", "polygon", "union", "unionNull", "simplify"}

\* Outcome of a tick that leaves the accumulated footprint alone
NoFold(acc) ==
  [acc |-> acc, polygonCalled |-> FALSE, seeded |-> FALSE,
   unionCalled |-> FALSE, folded |-> FALSE, failure |-> "none",
   logged |-> "none", threw |-> FALSE, visuals |-> FALSE]

\* The fold-in as it would be if the current polygon took the place of the
\* accumulated footprint: accumulatedGeoJSON = currentPoly
UnionAndSimplifyReplace(acc, currentPoly, fault, level) ==
  [NoFold(acc) EXCEPT !.acc = Some(currentPoly), !.polygonCalled = TRUE,
                      !.unionCalled = TRUE, !.folded = TRUE,
                      !.visuals = TRUE]

\* accumulatedGeoJSON = turf.union(...); accumulatedGeoJSON =
\* turf.simplify(accumulatedGeoJSON, ...), inside a try whose catch logs
UnionAndSimplify(acc, currentPoly, fault, level) ==
  LET called == [NoFold(acc) EXCEPT !.polygonCalled = TRUE,
                                    !.unionCalled = TRUE]
  IN  IF fault = "union"
      THEN [called EXCEPT !.failure = "union", !.logged = level]
      ELSE IF fault = "unionNull"
      THEN [called EXCEPT !.acc = Null, !.failure = "unionNull",
                          !.logged = level]
      ELSE LET unioned == TurfUnion(Val(acc), currentPoly)
           IN  IF fault = "simplify"
               THEN [called EXCEPT !.acc = Some(unioned), !.folded = TRUE,
                                   !.failure = "simplify", !.logged = level]
               ELSE [called EXCEPT !.acc = Some(TurfSimplify(unioned)),
                                   !.folded = TRUE, !.visuals = TRUE]

\* !accumulatedGeoJSON: accumulatedGeoJSON = currentPoly
Seed(acc, currentPoly) ==
  [NoFold(acc) EXCEPT !.acc = Some(currentPoly), !.polygonCalled = TRUE,
                      !.seeded = TRUE, !.folded = TRUE, !.visuals = TRUE]

\* utils.js: if (coordinates.length >= 3) { close; try { ... } catch warn }
AccumulateUtils(acc, coordinates, fault) ==
  IF Len(coordinates) >= 3
  THEN LET ring == Append(coordinates, coordinates[1])
       IN  IF PolygonThrows(ring, fault)
           THEN [NoFold(acc) EXCEPT !.polygonCalled = TRUE,
                                    !.failure = "polygon", !.logged = "warn"]
           ELSE IF acc = Null
           THEN Seed(acc, TurfPolygon(ring))
           ELSE UnionAndSimplify(acc, TurfPolygon(ring), fault, "warn")
  ELSE NoFold(acc)

\* cast.js: if (coordinates.length > 0) { close; turf.polygon outside any
\* try; try { union; simplify } catch error }
AccumulateCast(acc, coordinates, fault) ==
  IF Len(coordinates) > 0
  THEN LET ring == Append(coordinates, coordinates[1])
       IN  IF PolygonThrows(ring, fault)
           THEN [NoFold(acc) EXCEPT !.polygonCalled = TRUE,
                                    !.failure = "polygon", !.threw = TRUE]
           ELSE IF acc = Null
           THEN [Seed(acc, TurfPolygon(ring)) EXCEPT !.visuals = FALSE]
           ELSE [UnionAndSimplify(acc, TurfPolygon(ring), fault, "error")
                   EXCEPT !.visuals = FALSE]
  ELSE NoFold(acc)

\* utils.js updateFootprintVisuals: one pool entity per part, the rest hidden
NewFootprintPart == [show |-> showFootprint, hierarchy |-> <<>>]

RECURSIVE GrowPool(_, _)
GrowPool(pool, size) ==
  IF Len(pool) < size THEN GrowPool(Append(pool, NewFootprintPart), size)
  ELSE pool

UpdateFootprintVisuals(pool, acc) ==
  IF acc = Null THEN pool
  ELSE LET polygons == Polygons(Val(acc))
           grown == GrowPool(pool, Len(polygons))
       IN  [k \in 1..Len(grown) |->
              IF k > Len(polygons) THEN [grown[k] EXCEPT !.show = FALSE]
              ELSE IF Len(ExteriorRing(polygons[k])) < 4
              THEN [grown[k] EXCEPT !.show = FALSE]
              ELSE [show |-> showFootprint,
                    hierarchy |-> ExteriorRing(polygons[k])]]

\* The choice as it would be if the first polygon were taken
LargestPartFirst(polygons, k, maxArea, maxCoords) ==
  Some(ExteriorRing(polygons[1]))

\* cast.js: polygons.forEach from polygon k on: if (area > maxArea)
\* { maxArea = area; maxCoords = polyCoords[0] }
RECURSIVE LargestPart(_, _, _, _)
LargestPart(polygons, k, maxArea, maxCoords) ==
  IF k > Len(polygons) THEN maxCoords
  ELSE LET area == PartArea(polygons[k])
       IN  IF area > maxArea
           THEN LargestPart(polygons, k + 1, area,
                            Some(ExteriorRing(polygons[k])))
           ELSE LargestPart(polygons, k + 1, maxArea, maxCoords)

\* cast.js: what the hierarchy callback of the FootprintTotal entity returns
FootprintTotalHierarchy(acc) ==
  IF acc = Null THEN <<>>
  ELSE IF GeometryType(Val(acc)) = "Polygon"
  THEN ExteriorRing(Polygons(Val(acc))[1])
  ELSE LET maxCoords == LargestPart(Polygons(Val(acc)), 1, -1, Null)
       IN  IF maxCoords # Null THEN Val(maxCoords) ELSE <<>>

----------------------------------------------------------------------------
(* The session *)

\* options.scanPositions as the caller hands it over: n earlier centroids
InitialLengths == {0, MaxTrajectory - 1, MaxTrajectory}
InitialTrajectory(n) == [k \in 1..n |-> 20000 + k]

NoTick ==
  [ticked |-> FALSE, n |-> 0, center |-> Null, triggered |-> FALSE]

NoEvaluation ==
  [cone |-> 0, cast |-> FALSE, origin |-> 0, axis |-> Null, ground |-> 0,
   noConePos |-> FALSE, noGroundPos |-> FALSE,
   noOrientation |-> FALSE, pushed |-> FALSE, n |-> 0, center |-> Null,
   gate |-> FALSE, polygonCalled |-> FALSE,
   seeded |-> FALSE, unionCalled |-> FALSE, folded |-> FALSE,
   failure |-> "none", logged |-> "none", threw |-> FALSE, ret |-> Null,
   accBefore |-> Null, lastChanged |-> FALSE, first3 |-> FALSE,
   before |-> NoTick]

\* The session before any cone of createCone is looked at
NoCone ==
  [made |-> FALSE, id |-> Null, tipInViewer |-> FALSE,
   visualInViewer |-> FALSE, targetPosition |-> Null,
   isTargetOrientation |-> FALSE, manualOrientation |-> Null,
   optionsOrientation |-> Null, assigned |-> Null, assignedInMode |-> FALSE]

NoRead ==
  [read |-> FALSE, pos |-> Null, target |-> Null, useTarget |-> FALSE,
   manual |-> Null, assignedInMode |-> FALSE, value |-> Null]

\* viewer.clock as the Viewer makes it: no range; whether it animates
\* depends on the version of Cesium and on the user
DefaultClock(shouldAnimate) ==
  [startTime |-> 0, stopTime |-> StopTime, currentTime |-> 0,
   clockRange |-> "UNBOUNDED", shouldAnimate |-> shouldAnimate]

NoTimes == [c \in Cones |-> <<>>]

Init ==
  /\ impl \in {"utils", "cast"}
  /\ cone = NoCone
  /\ coneRead = NoRead
  /\ clock = DefaultClock(FALSE)
  /\ timeline = NoTimes
  /\ \E n \in InitialLengths :
       /\ scanPositions = InitialTrajectory(n)
       /\ appended = InitialTrajectory(n)
  /\ accumulatedGeoJSON = Null
  /\ lastFootprintPos = [c \in Cones |-> Null]
  /\ footprintEntityPool = <<>>
  /\ displayed = Null
  /\ ticks = 0
  /\ seen3 = FALSE
  /\ prev = [c \in Cones |-> NoTick]
  /\ ev = NoEvaluation

\* The faults that can show in a tick with these points
FaultsOf(fp, last) ==
  IF fp.center # Null /\ Gate(last, Val(fp.center)) THEN Faults ELSE {"none"}

\* One evaluation of the Highlight callback of cone c: the points the rays
\* gave, then the accumulation of the implementation
Evaluate(c, conePos, groundPos, orientation, fp, fault) ==
  LET points == fp.points
      n == Len(points)
      center == fp.center
      gate == n > 0 /\ Gate(lastFootprintPos[c], Val(center))
      res == IF ~gate THEN NoFold(accumulatedGeoJSON)
             ELSE IF impl = "utils"
             THEN AccumulateUtils(accumulatedGeoJSON, Coordinates(points),
                                  fault)
             ELSE AccumulateCast(accumulatedGeoJSON, Coordinates(points),
                                 fault)
      last == IF gate /\ ~res.threw
              THEN RecordLast(lastFootprintPos, c, center)
              ELSE lastFootprintPos
  IN  /\ ticks < MaxTicks
      /\ ticks' = ticks + 1
      /\ impl' = impl
      /\ accumulatedGeoJSON' = res.acc
      /\ footprintEntityPool' =
           IF res.visuals
           THEN UpdateFootprintVisuals(footprintEntityPool, res.acc)
           ELSE footprintEntityPool
      /\ displayed' = Null
      /\ lastFootprintPos' = last
      /\ scanPositions' =
           IF n > 0 /\ ~res.threw
           THEN PushScanPosition(scanPositions, Val(center))
           ELSE scanPositions
      /\ appended' =
           IF n > 0 /\ ~res.threw THEN Append(appended, Val(center))
           ELSE appended
      /\ seen3' = (seen3 \/ n >= 3)
      /\ prev' = [prev EXCEPT ![c] =
                    [ticked |-> TRUE, n |-> n, center |-> center,
                     triggered |-> res.seeded \/ res.unionCalled]]
      /\ ev' = [cone |-> c, cast |-> fp.cast, origin |-> fp.apexPos,
                axis |-> fp.axis, ground |-> fp.groundPos,
                noConePos |-> conePos = Null,
                noGroundPos |-> groundPos = Null,
                noOrientation |-> orientation = Null,
                pushed |-> n > 0 /\ ~res.threw, n |-> n, center |-> center,
                gate |-> gate, polygonCalled |-> res.polygonCalled,
                seeded |-> res.seeded, unionCalled |-> res.unionCalled,
                folded |-> res.folded, failure |-> res.failure,
                logged |-> res.logged, threw |-> res.threw,
                ret |-> IF res.threw THEN Null ELSE Some(points),
                accBefore |-> accumulatedGeoJSON,
                lastChanged |-> last[c] # lastFootprintPos[c],
                first3 |-> ~seen3 /\ n >= 3,
                before |-> prev[c]]

\* The early return as it would be if a missing cone position fell back to
\* a default position, the way a missing orientation falls back
FootprintUtilsFallbackPos(conePos, groundPos, orientation, vertexPosition, cylinderLength) ==
  IF groundPos = Null THEN NoFootprint
  ELSE Footprint(ApexUtils(IF conePos = Null THEN 4000 ELSE Val(conePos),
                           vertexPosition, ConeLength(cylinderLength)),
                 Axis(orientation, groundPos), Val(groundPos))

\* utils.js: the early return, else the apex and the rays around the axis
FootprintUtils(conePos, groundPos, orientation, vertexPosition, cylinderLength) ==
  IF MissingPose(conePos, groundPos) THEN NoFootprint
  ELSE Footprint(ApexUtils(Val(conePos), vertexPosition,
                           ConeLength(cylinderLength)),
                 Axis(orientation, groundPos), Val(groundPos))

\* cast.js: the early return, else the apex and the rays around the axis
FootprintCast(conePos, groundPos, cylinderLength) ==
  IF MissingPose(conePos, groundPos) THEN NoFootprint
  ELSE Footprint(ApexCast(Val(conePos), ConeLength(cylinderLength)),
                 AxisToGround(groundPos), Val(groundPos))

\* utils.js: the hierarchy callback of the Highlight entity of cone c
HighlightUtils(c) ==
  /\ impl = "utils"
  /\ \E conePos \in ConePosValues, groundPos \in GroundPosValues,
        orientation \in OrientationValues,
        vertexPosition \in VertexPositionValues,
        cylinderLength \in CylinderLengthValues :
       LET fp == FootprintUtils(conePos, groundPos, orientation,
                                vertexPosition, cylinderLength)
       IN  \E fault \in FaultsOf(fp, lastFootprintPos[c]) :
             Evaluate(c, conePos, groundPos, orientation, fp, fault)
  /\ UNCHANGED <<cone, coneRead, clock, timeline>>

\* cast.js: the hierarchy callback of the Highlight entity of its one cone
HighlightCast ==
  /\ impl = "cast"
  /\ \E conePos \in ConePosValues, groundPos \in GroundPosValues,
        orientation \in OrientationValues,
        cylinderLength \in CylinderLengthValues :
       LET fp == FootprintCast(conePos, groundPos, cylinderLength)
       IN  \E fault \in FaultsOf(fp, lastFootprintPos[1]) :
             Evaluate(1, conePos, groundPos, orientation, fp, fault)
  /\ UNCHANGED <<cone, coneRead, clock, timeline>>

\* cast.js: the hierarchy callback of the FootprintTotal entity
FootprintTotal ==
  /\ impl = "cast"
  /\ displayed = Null
  /\ displayed' = Some(FootprintTotalHierarchy(accumulatedGeoJSON))
  /\ UNCHANGED <<impl, scanPositions, accumulatedGeoJSON, lastFootprintPos,
                 footprintEntityPool, cone, coneRead, clock, timeline, ticks,
                 appended, seen3, prev, ev>>

Next ==
  \/ \E c \in Cones : HighlightUtils(c)
  \/ HighlightCast
  \/ FootprintTotal

Spec == Init /\ [][Next]_vars

----------------------------------------------------------------------------
(* A cone of createCone in a session of utils.js, as in the scene of      *)
(* part_002: the tip entity is the cone of the session                    *)

\* The session's own variables, which the properties of the cone leave alone
session ==
  <<impl, scanPositions, accumulatedGeoJSON, lastFootprintPos,
    footprintEntityPool, displayed, ticks, appended, seen3, prev, ev>>

\* options.targetPosition, tipEntity.targetPosition: null or a point
TargetPositionValues == {Null, Some(GroundLon)}

\* Cesium.Quaternion.IDENTITY, taken to look away from the ground circle
IdentityOrientation == Some(Null)

\* The quaternion of the rotation matrix [right, realUp, direction] with
\* direction from the target to the tip: its local -Z aims at the target
OrientationToTarget(currentPos, currentTarget) == Some(currentTarget)

\* createCone(viewer, options): the tip entity and the visual entity, both
\* added to the viewer, and _manualOrientation; id and orientation are Null
\* when the options have none, else the id and what the orientation
\* resolves to.  History: the orientation of the options, and what was
\* assigned to entity.orientation, in which mode (at first nothing)
CreateCone(id, orientation, targetPosition, isTargetOrientation) ==
  [made |-> TRUE, id |-> id, tipInViewer |-> TRUE, visualInViewer |-> TRUE,
   targetPosition |-> targetPosition,
   isTargetOrientation |-> isTargetOrientation,
   manualOrientation |->
     IF orientation # Null THEN Val(orientation) ELSE IdentityOrientation,
   optionsOrientation |-> orientation, assigned |-> Null,
   assignedInMode |-> FALSE]

\* masterOrientation as it would be if its fallback were the identity
MasterOrientationFallbackIdentity(useTarget, currentPos, currentTarget, manualOrientation) ==
  IF useTarget /\ currentPos # Null /\ currentTarget # Null
  THEN OrientationToTarget(currentPos, currentTarget)
  ELSE IdentityOrientation

\* masterOrientation as it would be if an assigned orientation came first
MasterOrientationManualFirst(useTarget, currentPos, currentTarget, manualOrientation) ==
  IF manualOrientation # Null THEN manualOrientation
  ELSE IF useTarget /\ currentPos # Null /\ currentTarget # Null
  THEN OrientationToTarget(currentPos, currentTarget)
  ELSE manualOrientation

\* masterOrientation: the callback behind tipEntity.orientation
MasterOrientation(useTarget, currentPos, currentTarget, manualOrientation) ==
  IF useTarget /\ currentPos # Null /\ currentTarget # Null
  THEN OrientationToTarget(currentPos, currentTarget)
  ELSE manualOrientation

InitCone ==
  /\ impl = "utils"
  /\ scanPositions = <<>>
  /\ appended = <<>>
  /\ accumulatedGeoJSON = Null
  /\ lastFootprintPos = [c \in Cones |-> Null]
  /\ footprintEntityPool = <<>>
  /\ displayed = Null
  /\ ticks = 0
  /\ seen3 = FALSE
  /\ prev = [c \in Cones |-> NoTick]
  /\ ev = NoEvaluation
  /\ \E orientation \in {Null} \cup {Some(q) : q \in OrientationValues},
        targetPosition \in TargetPositionValues,
        isTargetOrientation \in BOOLEAN :
       cone = CreateCone(Some("coneEntity"), orientation, targetPosition,
                         isTargetOrientation)
  /\ coneRead = NoRead
  /\ clock = DefaultClock(FALSE)
  /\ timeline = NoTimes

\* entity.orientation = value: the setter keeps it as _manualOrientation
SetOrientation(value) ==
  /\ cone' = [cone EXCEPT !.manualOrientation = value,
                          !.assigned =
                             Some([value |-> value,
                                   useTarget |-> cone.isTargetOrientation]),
                          !.assignedInMode = cone.isTargetOrientation]
  /\ coneRead' = NoRead
  /\ UNCHANGED <<session, clock, timeline>>

\* entity.isTargetOrientation = value
SetIsTargetOrientation(value) ==
  /\ cone' = [cone EXCEPT !.isTargetOrientation = value,
                          !.assignedInMode = cone.assignedInMode /\ value]
  /\ coneRead' = NoRead
  /\ UNCHANGED <<session, clock, timeline>>

\* entity.targetPosition = value
SetTargetPosition(value) ==
  /\ cone' = [cone EXCEPT !.targetPosition = value]
  /\ coneRead' = NoRead
  /\ UNCHANGED <<session, clock, timeline>>

\* utils.js: the Highlight callback of the session's cone, the tip entity:
\* it has no vertexPosition and no cylinder, and its orientation is
\* masterOrientation
HighlightOfCone ==
  \E conePos \in ConePosValues, groundPos \in {Some(GroundLon)} :
    LET orientation ==
          MasterOrientation(cone.isTargetOrientation, conePos,
                            cone.targetPosition, cone.manualOrientation)
        fp == FootprintUtils(conePos, groundPos, orientation, Null, Null)
    IN  /\ \E fault \in FaultsOf(fp, lastFootprintPos[1]) :
             Evaluate(1, conePos, groundPos, orientation, fp, fault)
        /\ coneRead' =
             IF MissingPose(conePos, groundPos) THEN coneRead
             ELSE [read |-> TRUE, pos |-> conePos,
                   target |-> cone.targetPosition,
                   useTarget |-> cone.isTargetOrientation,
                   manual |-> cone.manualOrientation,
                   assignedInMode |-> cone.assignedInMode,
                   value |-> orientation]
        /\ UNCHANGED <<cone, clock, timeline>>

NextCone ==
  \/ \E value \in OrientationValues : SetOrientation(value)
  \/ \E value \in BOOLEAN : SetIsTargetOrientation(value)
  \/ \E value \in TargetPositionValues : SetTargetPosition(value)
  \/ HighlightOfCone

ConeSpec == InitCone /\ [][NextCone]_vars

----------------------------------------------------------------------------
(* The two entities of a cone of createCone in the viewer: the tip        *)
(* entity, which the caller holds, and the visual entity with the         *)
(* cylinder, whose position and orientation are callbacks                 *)

\* options.id: none, or the id of the tip entity
IdValues == {Null, Some("coneEntity")}

\* viewer.entities.getById(id) with the id of the options: the tip entity
\* while it is in the viewer, else undefined; without an id it finds
\* nothing, and throws in a build of Cesium that checks its parameters
GetById(id, tipInViewer, checks) ==
  IF id = Null THEN (IF checks THEN "throws" ELSE "undefined")
  ELSE IF tipInViewer THEN "tipEntity" ELSE "undefined"

\* tipEntity.orientation.getValue(time) where the position is currentPos
ReadOrientation(currentPos) ==
  [read |-> TRUE, pos |-> currentPos, target |-> cone.targetPosition,
   useTarget |-> cone.isTargetOrientation, manual |-> cone.manualOrientation,
   assignedInMode |-> cone.assignedInMode,
   value |-> MasterOrientation(cone.isTargetOrientation, currentPos,
                               cone.targetPosition, cone.manualOrientation)]

InitVisual ==
  /\ impl = "utils"
  /\ scanPositions = <<>>
  /\ appended = <<>>
  /\ accumulatedGeoJSON = Null
  /\ lastFootprintPos = [c \in Cones |-> Null]
  /\ footprintEntityPool = <<>>
  /\ displayed = Null
  /\ ticks = 0
  /\ seen3 = FALSE
  /\ prev = [c \in Cones |-> NoTick]
  /\ ev = NoEvaluation
  /\ \E id \in IdValues,
        orientation \in {Null} \cup {Some(q) : q \in OrientationValues},
        targetPosition \in TargetPositionValues,
        isTargetOrientation \in BOOLEAN :
       cone = CreateCone(id, orientation, targetPosition, isTargetOrientation)
  /\ coneRead = NoRead
  /\ clock = DefaultClock(FALSE)
  /\ timeline = NoTimes

\* viewer.entities.remove(tipEntity), by the caller
RemoveTip ==
  /\ cone.tipInViewer
  /\ cone' = [cone EXCEPT !.tipInViewer = FALSE]
  /\ UNCHANGED <<session, coneRead, clock, timeline>>

\* The callback of visualEntity.position, which the viewer evaluates while
\* the visual entity is in it: the cleanup check, else the position and
\* the orientation of the tip entity
VisualPosition ==
  /\ cone.visualInViewer
  /\ \E pos \in {Null, Some(4000)}, checks \in BOOLEAN :
       LET found == GetById(cone.id, cone.tipInViewer, checks)
       IN  IF found = "throws" THEN UNCHANGED <<cone, coneRead>>
           ELSE IF found = "undefined"
           THEN /\ cone' = [cone EXCEPT !.visualInViewer = FALSE]
                /\ UNCHANGED coneRead
           ELSE /\ coneRead' = ReadOrientation(pos)
                /\ UNCHANGED cone
  /\ UNCHANGED <<session, clock, timeline>>

\* The callback of visualEntity.orientation: undefined without the tip
\* entity, else the orientation of the tip entity
VisualOrientation ==
  /\ cone.visualInViewer
  /\ \E pos \in {Null, Some(4000)}, checks \in BOOLEAN :
       LET found == GetById(cone.id, cone.tipInViewer, checks)
       IN  IF found = "tipEntity"
           THEN coneRead' = ReadOrientation(pos)
           ELSE UNCHANGED coneRead
  /\ UNCHANGED <<session, cone, clock, timeline>>

NextVisual ==
  \/ \E value \in OrientationValues : SetOrientation(value)
  \/ \E value \in BOOLEAN : SetIsTargetOrientation(value)
  \/ \E value \in TargetPositionValues : SetTargetPosition(value)
  \/ RemoveTip
  \/ VisualPosition
  \/ VisualOrientation

VisualSpec == InitVisual /\ [][NextVisual]_vars

----------------------------------------------------------------------------
(* The scenes: scene of part_002 and castToCartesian3 hand their cones to *)
(* createIntersectionPolygon of utils.js and set the clock of the viewer  *)

\* The seconds of simulation time that one frame can take
FrameSeconds == {1, 2}

\* clock.startTime, stopTime, currentTime = startTime, clockRange =
\* LOOP_STOP, shouldAnimate = true
LoopStopClock ==
  [startTime |-> 0, stopTime |-> StopTime, currentTime |-> 0,
   clockRange |-> "LOOP_STOP", shouldAnimate |-> TRUE]

\* scene(viewer) always sets the clock
ClockOfScene == LoopStopClock

\* castToCartesian3(viewer, enableAnimation) sets it if (enableAnimation)
ClockOfCastToCartesian3(enableAnimation, shouldAnimate) ==
  IF enableAnimation THEN LoopStopClock ELSE DefaultClock(shouldAnimate)

\* ClockRange.LOOP_STOP: while the time is past stopTime it becomes
\* startTime plus what it is past stopTime
RECURSIVE LoopStop(_, _, _)
LoopStop(startTime, stopTime, time) ==
  IF time > stopTime
  THEN LoopStop(startTime, stopTime, startTime + (time - stopTime))
  ELSE time

InitScene ==
  /\ impl = "utils"
  /\ scanPositions = <<>>
  /\ appended = <<>>
  /\ accumulatedGeoJSON = Null
  /\ lastFootprintPos = [c \in Cones |-> Null]
  /\ footprintEntityPool = <<>>
  /\ displayed = Null
  /\ ticks = 0
  /\ seen3 = FALSE
  /\ prev = [c \in Cones |-> NoTick]
  /\ ev = NoEvaluation
  /\ cone = NoCone
  /\ coneRead = NoRead
  /\ \/ clock = ClockOfScene
     \/ \E enableAnimation \in BOOLEAN, shouldAnimate \in BOOLEAN :
          clock = ClockOfCastToCartesian3(enableAnimation, shouldAnimate)
  /\ timeline = NoTimes

\* viewer.clock.tick() of a frame that takes so many seconds
ClockTick(seconds) ==
  /\ clock.shouldAnimate
  /\ clock.currentTime + seconds <= MaxTime
  /\ clock' =
       [clock EXCEPT !.currentTime =
          IF clock.clockRange = "LOOP_STOP"
          THEN LoopStop(clock.startTime, clock.stopTime,
                        clock.currentTime + seconds)
          ELSE clock.currentTime + seconds]
  /\ UNCHANGED <<session, cone, coneRead, timeline>>

\* utils.js: the Highlight callback of cone c of a scene, evaluated at
\* time = viewer.clock.currentTime: the cone is 4000 m from the surface and
\* has a cylinder, the ground circle is where it was made
HighlightInScene(c) ==
  /\ \E conePos \in {Some(4000)}, groundPos \in {Some(GroundLon)},
        orientation \in OrientationValues,
        cylinderLength \in {Some(2000)} :
       LET fp == FootprintUtils(conePos, groundPos, orientation, Null,
                                cylinderLength)
       IN  \E fault \in FaultsOf(fp, lastFootprintPos[c]) :
             Evaluate(c, conePos, groundPos, orientation, fp, fault)
  /\ timeline' = [timeline EXCEPT ![c] = Append(@, clock.currentTime)]
  /\ UNCHANGED <<cone, coneRead, clock>>

NextScene ==
  \/ \E seconds \in FrameSeconds : ClockTick(seconds)
  \/ \E c \in Cones : HighlightInScene(c)

SceneSpec == InitScene /\ [][NextScene]_vars

----------------------------------------------------------------------------
(* The claims *)

\* C1: at the end of every tick the trajectory holds at most 200 centroids.
TrajectoryBounded == Len(scanPositions) <= MaxTrajectory

\* C1 witness: a tick pushed onto a full trajectory and one entry was evicted.
TrajectoryEvicted ==
  /\ ticks > 0
  /\ ev.pushed
  /\ Len(appended) > MaxTrajectory
  /\ Len(scanPositions) = MaxTrajectory

\* C2: the trajectory is the most recent min(k, 200) of the k centroids
\* appended so far, in the order of their appending.
TrajectoryIsFifo ==
  LET k == Len(appended)
      m == Min2(k, MaxTrajectory)
  IN  scanPositions = SubSeq(appended, k - m + 1, k)

\* C2 witness: after 201 appends the first is gone and the second is the head.
TrajectoryHeadIsSecond ==
  /\ ticks > 0
  /\ ev.pushed
  /\ Len(appended) = MaxTrajectory + 1
  /\ scanPositions[1] = appended[2]
  /\ \A k \in 1..Len(scanPositions) : scanPositions[k] # appended[1]

\* C3: a centroid is appended only on a qualifying update: a tick with at
\* least 3 accepted points that passes the 100 m gate of its cone.
TrajectoryOnlyOnQualifying ==
  (ticks > 0 /\ ev.pushed) => (ev.n >= 3 /\ ev.gate)

\* C4: of two successive footprints of one cone with at least 3 points and
\* centroids at most 100 m apart, the first of which triggered a seed or a
\* union, the second triggers neither; exactly 100 m does not qualify.
ThrottleHolds ==
  (/\ ticks > 0
   /\ ev.before.ticked /\ ev.before.triggered /\ ev.before.n >= 3
   /\ ev.n >= 3
   /\ Distance(Val(ev.center), Val(ev.before.center)) <= MinDisplacement)
  => (~ev.seeded /\ ~ev.unionCalled /\ ~ev.polygonCalled)

\* C4 witness: the second footprint is exactly 100 m from the first, which
\* was folded in, and it triggered nothing.
ThrottledAtExactly100 ==
  /\ ticks > 0
  /\ ev.before.ticked /\ ev.before.triggered /\ ev.before.n >= 3
  /\ ev.n >= 3
  /\ Distance(Val(ev.center), Val(ev.before.center)) = MinDisplacement
  /\ ~ev.seeded /\ ~ev.unionCalled

\* C5: while the accumulated footprint is null, the first evaluated footprint
\* with at least 3 points (turf failing nothing) becomes the accumulated
\* footprint on that tick, whatever was evaluated before it.
SeededByFirstFootprint ==
  (ticks > 0 /\ ev.accBefore = Null /\ ev.first3 /\ ev.failure = "none")
  => (ev.seeded /\ accumulatedGeoJSON # Null)

\* C6: the Last-Recorded-Centroid of a cone changes only on a tick in which
\* the footprint of that cone is folded in (a seed or a successful union).
LastCentroidOnlyOnFold == (ticks > 0 /\ ev.lastChanged) => ev.folded

\* C7: when the union or the simplification of a fold-in fails, the
\* accumulated footprint after the tick is the one before the tick, and the
\* failure is logged and does not escape.
FailureKeepsAccumulated ==
  (ticks > 0 /\ ev.failure \in {"union", "simplify"})
  => (accumulatedGeoJSON = ev.accBefore /\ ev.logged # "none" /\ ~ev.threw)

\* C8: no evaluation of the Highlight callback lets an exception escape;
\* every evaluation returns a ring.
NoExceptionEscapes == ticks > 0 => (~ev.threw /\ ev.ret # Null)

\* C9 as stated: when the position or the orientation of the cone is
\* unresolved, the tick returns the empty ring and changes nothing.
MissingPoseIsNoOp ==
  (ticks > 0 /\ (ev.noConePos \/ ev.noOrientation))
  => (/\ ev.ret = Some(<<>>)
      /\ accumulatedGeoJSON = ev.accBefore
      /\ ~ev.lastChanged
      /\ ~ev.pushed)

\* C9 as amended: when the position of the cone is unresolved, the tick
\* returns the empty ring and changes none of the accumulated footprint,
\* the trajectory and the Last-Recorded-Centroid.
MissingPositionIsNoOp ==
  (ticks > 0 /\ ev.noConePos)
  => (/\ ev.ret = Some(<<>>)
      /\ accumulatedGeoJSON = ev.accBefore
      /\ ~ev.lastChanged
      /\ ~ev.pushed)

\* C9 witness: a tick without a cone position on a seeded session.
MissingPositionAfterSeed ==
  /\ ticks > 0
  /\ ev.noConePos /\ ~ev.noGroundPos
  /\ accumulatedGeoJSON # Null
  /\ lastFootprintPos[ev.cone] # Null

\* C10: a tick whose footprint has fewer than 3 accepted points skips the
\* accumulation (no polygon is built, the accumulated footprint stays) and
\* still returns the ring of its accepted points.
FewPointsSkipAccumulation ==
  (ticks > 0 /\ ev.n < 3)
  => (/\ accumulatedGeoJSON = ev.accBefore
      /\ ~ev.polygonCalled
      /\ ev.ret # Null
      /\ Len(Val(ev.ret)) = ev.n)

\* C11: the cones of one session share the accumulated footprint and the
\* trajectory and each has its own Last-Recorded-Centroid: a tick of a cone
\* leaves the Last-Recorded-Centroid of every other cone as it was, the first
\* footprint of a cone passes the gate whatever the other cones did, and a
\* footprint of at least 3 points that passes the gate (turf failing
\* nothing) is folded into the one accumulated footprint, which then covers
\* it, and its centroid is the newest entry of the one trajectory.
ConesShareAndGateAlone ==
  [][ticks' > ticks =>
       /\ \A c \in Cones :
            c # ev'.cone => lastFootprintPos'[c] = lastFootprintPos[c]
       /\ (~ev'.before.ticked /\ ev'.n > 0) => ev'.gate
       /\ (ev'.n >= 3 /\ ev'.gate /\ ev'.failure = "none") =>
            LET lons == {Val(ev'.ret)[k].lon : k \in 1..ev'.n}
                parts == Val(accumulatedGeoJSON').parts
            IN  /\ ev'.folded
                /\ \E j \in 1..Len(parts) :
                     parts[j][1] <= SetMin(lons) /\ SetMax(lons) <= parts[j][2]
                /\ scanPositions'[Len(scanPositions')] = Val(ev'.center)]_vars

\* C11 witness: cone 2 ticks after cone 1, its centroid at most 100 m from
\* the one cone 1 recorded, and its footprint is united with the accumulated
\* footprint that cone 1 seeded; each cone has recorded its own centroid.
BothConesFolded ==
  /\ impl = "utils" /\ ticks > 1
  /\ ev.cone = 2 /\ prev[1].ticked /\ prev[1].triggered
  /\ ev.unionCalled /\ ev.folded /\ ev.failure = "none"
  /\ Distance(Val(ev.center), Val(prev[1].center)) <= MinDisplacement
  /\ ev.center # prev[1].center
  /\ lastFootprintPos[1] = prev[1].center
  /\ lastFootprintPos[2] = ev.center

\* C12: the footprint a tick returns has at most 72 points, each of a
\* sample 0..71, and the samples of its points increase along the ring.
FootprintInSampleOrder ==
  (ticks > 0 /\ ev.ret # Null) =>
    LET points == Val(ev.ret)
    IN  /\ Len(points) <= 72
        /\ \A k \in 1..Len(points) : points[k].sample \in 0..71
        /\ \A k \in 1..(Len(points) - 1) :
             points[k].sample < points[k + 1].sample

\* C12 witness: a returned footprint of at least 3 points that begins with
\* sample 0 and leaves out samples in the middle of the ring.
FootprintSkipsSamples ==
  /\ ticks > 0 /\ ev.ret # Null /\ ev.n >= 3
  /\ Val(ev.ret)[1].sample = 0
  /\ \E k \in 1..(ev.n - 1) :
       Val(ev.ret)[k + 1].sample > Val(ev.ret)[k].sample + 1

\* C13: every point of the returned footprint is the intersection of the
\* ray of its sample with the ellipsoid and lies at most the radius from the
\* centre of the ground circle; a sample whose ray misses, or hits farther
\* away than the radius, has no point in the footprint.
FootprintWithinRegion ==
  (ticks > 0 /\ ev.ret # Null /\ ev.cast) =>
    LET points == Val(ev.ret)
    IN  /\ \A k \in 1..Len(points) :
             /\ RayEllipsoid(ev.origin, ev.axis, points[k].sample)
                  = Some(points[k].lon)
             /\ Abs(points[k].lon - ev.ground) <= groundCircleRadius
        /\ \A i \in 0..71 :
             LET intersection == RayEllipsoid(ev.origin, ev.axis, i)
             IN  (\/ intersection = Null
                  \/ Abs(Val(intersection) - ev.ground) > groundCircleRadius)
                 => \A k \in 1..Len(points) : points[k].sample # i

\* C13 witness: a returned footprint of at least 3 points of a tick in
\* which another ray hit the ellipsoid farther away than the radius.
FootprintClipped ==
  /\ ticks > 0 /\ ev.ret # Null /\ ev.cast /\ ev.n >= 3
  /\ \E i \in 0..71 :
       LET intersection == RayEllipsoid(ev.origin, ev.axis, i)
       IN  /\ intersection # Null
           /\ Abs(Val(intersection) - ev.ground) > groundCircleRadius

\* C14: a tick whose axis points away from the ellipsoid, so that every
\* ray misses, returns a footprint of 0 points and leaves the accumulated
\* footprint, the trajectory and the Last-Recorded-Centroid as they were.
AllRaysMissIsNoOp ==
  (ticks > 0 /\ ev.cast /\ ev.axis = Null) =>
    /\ ev.n = 0
    /\ ev.ret = Some(<<>>)
    /\ accumulatedGeoJSON = ev.accBefore
    /\ ~ev.lastChanged
    /\ ~ev.pushed

\* C14 witness: every ray misses in a tick of a cone that has recorded a
\* centroid, on a seeded session with a trajectory.
RaysMissAfterSeed ==
  /\ ticks > 0 /\ ev.cast /\ ev.axis = Null
  /\ accumulatedGeoJSON # Null
  /\ lastFootprintPos[ev.cone] # Null
  /\ Len(scanPositions) > 0

\* C15: whenever the orientation of a cone of createCone is read while
\* isTargetOrientation is on and the position and the target point both
\* resolve, the value is the orientation computed from position and target,
\* whatever has been assigned to entity.orientation.
TargetModeDecidesOrientation ==
  (/\ coneRead.read /\ coneRead.useTarget
   /\ coneRead.pos # Null /\ coneRead.target # Null)
  => coneRead.value = Some(coneRead.target)

\* C15 witness: the mode is on, an orientation that aims elsewhere was
\* assigned during the mode, and the value read aims at the target.
AssignedOrientationOverridden ==
  /\ coneRead.read /\ coneRead.useTarget
  /\ coneRead.pos # Null /\ coneRead.target # Null
  /\ coneRead.assignedInMode
  /\ coneRead.manual # Null /\ coneRead.manual # Some(coneRead.target)
  /\ coneRead.value = Some(coneRead.target)

\* C16: whenever the orientation of a cone of createCone is read, the value
\* is computed from position and targetPosition if targetPosition is not
\* null, and is the assigned orientation only if targetPosition is null.
TargetPositionHasPriority ==
  (coneRead.read /\ coneRead.pos # Null) =>
    IF coneRead.target # Null
    THEN coneRead.value = Some(coneRead.target)
    ELSE coneRead.value = coneRead.manual

\* C17: the rays of a tick of a cone of createCone start at the position of
\* the entity, which is the tip of the cone.
RaysStartAtTip ==
  (ticks > 0 /\ ev.cast /\ coneRead.read) => ev.origin = Val(coneRead.pos)

\* turf.area of a geometry: the sum of the areas of its first k parts
RECURSIVE AreaOfParts(_, _)
AreaOfParts(parts, k) ==
  IF k = 0 THEN 0 ELSE (parts[k][2] - parts[k][1]) + AreaOfParts(parts, k - 1)

\* C18: folding in a footprint that lies inside the accumulated footprint
\* (turf failing nothing) leaves the area of the accumulated footprint as
\* it was.
ContainedFoldKeepsArea ==
  (/\ ticks > 0 /\ ev.accBefore # Null
   /\ ev.gate /\ ev.n >= 3 /\ ev.failure = "none" /\ ~ev.threw
   /\ LET lons == {Val(ev.ret)[k].lon : k \in 1..ev.n}
          before == Val(ev.accBefore).parts
      IN  \E j \in 1..Len(before) :
            before[j][1] <= SetMin(lons) /\ SetMax(lons) <= before[j][2])
  => /\ accumulatedGeoJSON # Null
     /\ AreaOfParts(Val(accumulatedGeoJSON).parts,
                    Len(Val(accumulatedGeoJSON).parts))
        = AreaOfParts(Val(ev.accBefore).parts, Len(Val(ev.accBefore).parts))

\* C18 witness: a tick united a footprint with an accumulated footprint
\* that reaches farther than it on both sides.
ContainedFootprintFolded ==
  /\ ticks > 0 /\ ev.accBefore # Null
  /\ ev.unionCalled /\ ev.folded /\ ev.n >= 3 /\ ev.failure = "none"
  /\ LET lons == {Val(ev.ret)[k].lon : k \in 1..ev.n}
         before == Val(ev.accBefore).parts
     IN  \E j \in 1..Len(before) :
           before[j][1] < SetMin(lons) /\ SetMax(lons) < before[j][2]

\* C19: when a tick unites a footprint with the accumulated footprint
\* (turf failing nothing), as when a second cone ticks on the footprint of a
\* first one, the area of the result is at most the sum of the two areas,
\* and less than the sum when the two overlap.
UnionCountsOverlapOnce ==
  (ticks > 0 /\ ev.unionCalled /\ ev.failure = "none" /\ ~ev.threw) =>
    LET lons == {Val(ev.ret)[k].lon : k \in 1..ev.n}
        w == SetMin(lons)
        e == SetMax(lons)
        before == Val(ev.accBefore).parts
        after == Val(accumulatedGeoJSON).parts
        sum == AreaOfParts(before, Len(before)) + (e - w)
    IN  /\ AreaOfParts(after, Len(after)) <= sum
        /\ (\E j \in 1..Len(before) :
              Min2(before[j][2], e) > Max2(before[j][1], w))
             => AreaOfParts(after, Len(after)) < sum

\* C19 witness: cone 2 ticks on the footprint that cone 1 seeded, the two
\* footprints overlap and neither lies inside the other.
TwoConesOverlap ==
  /\ impl = "utils" /\ ticks > 1
  /\ ev.cone = 2 /\ prev[1].triggered
  /\ ev.unionCalled /\ ev.folded /\ ev.failure = "none"
  /\ LET lons == {Val(ev.ret)[k].lon : k \in 1..ev.n}
         w == SetMin(lons)
         e == SetMax(lons)
         before == Val(ev.accBefore).parts
     IN  /\ Len(before) = 1
         /\ Min2(before[1][2], e) > Max2(before[1][1], w)
         /\ before[1][1] < w /\ before[1][2] < e

\* C20: what FootprintTotal displays: of an empty accumulator the empty
\* ring, of a footprint of one part the exterior ring of that part, of a
\* footprint of several parts the exterior ring of a part whose area is the
\* largest of all.
DisplayedIsLargestPart ==
  displayed # Null =>
    IF accumulatedGeoJSON = Null THEN Val(displayed) = <<>>
    ELSE LET parts == Val(accumulatedGeoJSON).parts
         IN  /\ \E j \in 1..Len(parts) :
                  /\ Val(displayed) = <<parts[j][1], parts[j][2], parts[j][2],
                                        parts[j][1], parts[j][1]>>
                  /\ \A k \in 1..Len(parts) :
                       parts[k][2] - parts[k][1] <= parts[j][2] - parts[j][1]
             /\ Len(parts) = 1 =>
                  Val(displayed) = <<parts[1][1], parts[1][2], parts[1][2],
                                    parts[1][1], parts[1][1]>>

\* C20 witness: FootprintTotal displayed a footprint of two parts of which
\* the first is the smaller one.
DisplayedSecondOfTwoParts ==
  /\ displayed # Null /\ accumulatedGeoJSON # Null
  /\ LET parts == Val(accumulatedGeoJSON).parts
     IN  /\ Len(parts) = 2
         /\ parts[1][2] - parts[1][1] < parts[2][2] - parts[2][1]
         /\ Val(displayed)[1] = parts[2][1]

\* C21: after every tick of a session of utils.js the pool shows the
\* accumulated footprint: entity k of the pool is shown with the exterior
\* ring of part k for every part whose exterior ring has at least 4
\* positions, and every other entity of the pool is hidden.
PoolShowsAccumulated ==
  (impl = "utils" /\ ticks > 0) =>
    LET parts == IF accumulatedGeoJSON = Null THEN <<>>
                 ELSE Polygons(Val(accumulatedGeoJSON))
        drawn == {k \in 1..Len(parts) : Len(ExteriorRing(parts[k])) >= 4}
    IN  /\ drawn \subseteq 1..Len(footprintEntityPool)
        /\ \A k \in 1..Len(footprintEntityPool) :
             IF k \in drawn
             THEN /\ footprintEntityPool[k].show
                  /\ footprintEntityPool[k].hierarchy = ExteriorRing(parts[k])
             ELSE ~footprintEntityPool[k].show

\* C22: in every scene the evaluations of one cone happen at simulation
\* times that never decrease, for the whole run of the clock.
EvaluationsInTimeOrder ==
  \A c \in Cones :
    \A k \in 1..(Len(timeline[c]) - 1) : timeline[c][k] <= timeline[c][k + 1]

\* C23: once the accumulated footprint is seeded it is never null again,
\* whatever fails in the ticks that follow.
SeededStaysSeeded ==
  [][accumulatedGeoJSON # Null => accumulatedGeoJSON' # Null]_vars

\* C24: a tick of a cone whose pose and footprint are those of the tick
\* just before it, a tick of the same cone, leaves the accumulated footprint
\* and the Last-Recorded-Centroid of the cone as they were and calls no
\* union (turf.polygon treating the same ring the same way both times).
SamePoseIsIdempotent ==
  [][(/\ ticks > 0 /\ ticks' > ticks
      /\ ev'.cone = ev.cone
      /\ ev'.cast = ev.cast /\ ev'.origin = ev.origin
      /\ ev'.axis = ev.axis /\ ev'.ground = ev.ground
      /\ ev'.n = ev.n /\ ev'.center = ev.center
      /\ ev.threw => ev'.threw)
     => (/\ accumulatedGeoJSON' = accumulatedGeoJSON
         /\ lastFootprintPos'[ev.cone] = lastFootprintPos[ev.cone]
         /\ ~ev'.unionCalled /\ ~ev'.seeded)]_vars

\* C24 witness: the second tick of a cone has the pose and the footprint of
\* its first tick, which seeded the accumulated footprint, and did not pass
\* the gate.
SamePoseReevaluated ==
  /\ ticks = 2 /\ ev.before.ticked /\ ev.before.triggered
  /\ ev.cast /\ ev.n >= 3
  /\ ev.before.n = ev.n /\ ev.before.center = ev.center
  /\ accumulatedGeoJSON # Null /\ accumulatedGeoJSON = ev.accBefore
  /\ LET lons == {Val(ev.ret)[k].lon : k \in 1..ev.n}
     IN  Val(accumulatedGeoJSON).parts = <<<<SetMin(lons), SetMax(lons)>>>>
  /\ ~ev.gate /\ ~ev.unionCalled

\* C25: the visual entity of a cone of createCone, made with or without an
\* id, leaves the viewer only when the tip entity has left it: no step
\* removes the visual entity while the tip entity is in the viewer.
VisualOutlivesTip ==
  [][(cone.visualInViewer /\ ~cone'.visualInViewer) => ~cone.tipInViewer]_vars

====
